---- MODULE Spec2Model ----
(***************************************************************************)
(* token-gate-server: the nonce registry, the challenge-message codec, the *)
(* balance gate, the session tokens and the four HTTP handlers             *)
(* (/auth/nonce, /auth/verify, /auth/refresh, /entitlement).               *)
(*                                                                         *)
(* Time is Date.now() in milliseconds; one second is MsPerSec ticks and    *)
(* one minute SecPerMin seconds (1000 and 60 in the program, scaled down   *)
(* here so that the clock stays small).  A handler runs atomically up to   *)
(* its first await (Node's single thread); the part after the balance      *)
(* fetch is a second step, so requests interleave at the await.            *)
(***************************************************************************)
EXTENDS Integers, Sequences, FiniteSets, TLC

\* ---------------------------------------------------------------- bounds
MaxTime == 4          \* the clock stops here
MaxNonces == 1        \* /auth/nonce calls in one run
MaxRegistry == 2      \* /auth/nonce calls in one run of the registry's own specification
MaxInflight == 1      \* requests of one handler suspended at the balance fetch at once
MaxTokens == 2        \* distinct tokens in one run, PriorToken included
MsPerSec == 2         \* ticks per second (1000 in the program)
SecPerMin == 2        \* seconds per minute (60 in the program)
MinPerHour == 2       \* minutes per hour (60 in the program)
MantissaBits == 4     \* significant bits of a JS number (53 in the program)
MaxBalance == 24      \* largest on-chain balance drawn for the gate
MaxThresholdHuman == 3
MaxDecimals == 1

\* ------------------------------------------------- configuration (env)
JWT_SECRET == "secret"
EXPECTED_DOMAIN == "app.example"   \* configured: the domain check runs
EXPECTED_CHAIN_ID == ""            \* not configured: the chain check is skipped
VFT_DECIMALS == 1
VFT_THRESHOLD_HUMAN == 2
NONCE_TTL == 1                     \* seconds
JWT_TTL_MIN == 1                   \* minutes
CLOCK_SKEW_MS == 1
REFRESH_MIN_REMAIN_SEC == 1

\* ------------------------------------------------------------- numbers
RECURSIVE Pow(_, _)
Pow(b, e) == IF e <= 0 THEN 1 ELSE b * Pow(b, e - 1)

RECURSIVE BitLen(_)
BitLen(n) == IF n <= 0 THEN 0 ELSE 1 + BitLen(n \div 2)

\* Number(x) of an unsigned integer x: the nearest value with MantissaBits
\* significant bits, ties to the even mantissa (IEEE 754 round-to-nearest).
ToNumber(x) ==
  LET drop == BitLen(x) - MantissaBits IN
  IF drop <= 0 THEN x
  ELSE LET unit == Pow(2, drop)
           q == x \div unit
           r == x % unit
           half == unit \div 2
           up == (r > half) \/ (r = half /\ q % 2 = 1)
       IN (IF up THEN q + 1 ELSE q) * unit

NaN == -1000000   \* a number that is not one (balances here are never negative)

\* ----------------------------------------------------- text of a message
\* A field value is a piece of text.  Its kind says what the text is: ""
\* (empty), a UUID (num names it), an ISO-8601 date (num is its instant in
\* ms), free text (txt), or a string of characters (chars) for ExpiresIn.
EmptyVal == [kind |-> "empty", num |-> 0, txt |-> "", chars |-> <<>>]
UuidVal(n) == [kind |-> "uuid", num |-> n, txt |-> "", chars |-> <<>>]
DateVal(t) == [kind |-> "date", num |-> t, txt |-> "", chars |-> <<>>]
TextVal(s) == [kind |-> "text", num |-> 0, txt |-> s, chars |-> <<>>]
CharsVal(cs) == [kind |-> "chars", num |-> 0, txt |-> "", chars |-> cs]

Digits == {"0", "1", "2", "3", "4", "5", "6", "7", "8", "9"}
DigitVal(c) ==
  CASE c = "0" -> 0 [] c = "1" -> 1 [] c = "2" -> 2 [] c = "3" -> 3
    [] c = "4" -> 4 [] c = "5" -> 5 [] c = "6" -> 6 [] c = "7" -> 7
    [] c = "8" -> 8 [] OTHER -> 9

RECURSIVE TrimLeft(_)
TrimLeft(cs) ==
  IF cs /= <<>> /\ Head(cs) = " " THEN TrimLeft(Tail(cs)) ELSE cs

RECURSIVE TrimRight(_)
TrimRight(cs) ==
  IF cs /= <<>> /\ cs[Len(cs)] = " "
    THEN TrimRight(SubSeq(cs, 1, Len(cs) - 1)) ELSE cs

\* String.prototype.trim
Trim(v) ==
  IF v.kind /= "chars" THEN v
  ELSE LET cs == TrimRight(TrimLeft(v.chars)) IN
       IF cs = <<>> THEN EmptyVal ELSE CharsVal(cs)

\* A message is its lines in order; a line "Key:value" is [key, val], val
\* being the text after the first colon.
RECURSIVE FindLine(_, _)
FindLine(message, key) ==
  IF message = <<>> THEN EmptyVal
  ELSE IF Head(message).key = key THEN Head(message).val
  ELSE FindLine(Tail(message), key)

\* extractLine taking the last line that starts with the key
extractLine_LastLine(message, key) ==
  LET at == {i \in 1..Len(message) : message[i].key = key} IN
  IF at = {} THEN EmptyVal
  ELSE Trim(message[CHOOSE i \in at : \A j \in at : j <= i].val)

extractLine(message, key) == Trim(FindLine(message, key))

\* mustExtract throws when the value is empty
mustExtractThrows(message, key) == extractLine(message, key).kind = "empty"

RequiredKeys == <<"Nonce", "Domain", "ChainId", "IssuedAt", "ExpiresIn">>

RECURSIVE FirstMissingFrom(_, _)
FirstMissingFrom(message, i) ==
  IF i > Len(RequiredKeys) THEN ""
  ELSE IF mustExtractThrows(message, RequiredKeys[i]) THEN RequiredKeys[i]
  ELSE FirstMissingFrom(message, i + 1)

\* the key of the first mustExtract call that throws, "" when none does
FirstMissing(message) == FirstMissingFrom(message, 1)

RECURSIVE DigitPrefixLen(_)
DigitPrefixLen(cs) ==
  IF cs /= <<>> /\ Head(cs) \in Digits THEN 1 + DigitPrefixLen(Tail(cs)) ELSE 0

RECURSIVE DigitsValue(_, _)
DigitsValue(cs, acc) ==
  IF cs = <<>> THEN acc ELSE DigitsValue(Tail(cs), acc * 10 + DigitVal(Head(cs)))

LowerUnit(c) ==
  CASE c \in {"s", "S"} -> "s" [] c \in {"m", "M"} -> "m"
    [] c \in {"h", "H"} -> "h" [] OTHER -> "?"

\* /^(\d+)\s*([smh])?$/i on the trimmed text; 0 when it does not match
parseDurationMs(s) ==
  LET v == Trim(s) IN
  IF v.kind /= "chars" THEN 0
  ELSE LET cs == v.chars
           nd == DigitPrefixLen(cs)
           rest == TrimLeft(SubSeq(cs, nd + 1, Len(cs)))
           matches == nd >= 1 /\ (rest = <<>> \/ (Len(rest) = 1 /\ LowerUnit(rest[1]) /= "?"))
           val == DigitsValue(SubSeq(cs, 1, nd), 0)
           unit == IF rest = <<>> THEN "s" ELSE LowerUnit(rest[1])
       IN IF ~matches THEN 0
          ELSE CASE unit = "s" -> val * MsPerSec
                 [] unit = "m" -> val * SecPerMin * MsPerSec
                 [] unit = "h" -> val * MinPerHour * SecPerMin * MsPerSec
                 [] OTHER -> 0

\* Date.parse: the instant of a date text, NaN for anything else
DateParse(v) == IF v.kind = "date" THEN v.num ELSE NaN

\* isMessageFresh without the lower end of the window
isMessageFresh_NoLowerBound(issuedAt, expiresIn, skewMs, t) ==
  LET issued == DateParse(issuedAt)
      durMs == parseDurationMs(expiresIn)
  IN IF issued = NaN THEN FALSE
     ELSE IF durMs <= 0 THEN FALSE
     ELSE t <= issued + durMs + skewMs

isMessageFresh(issuedAt, expiresIn, skewMs, t) ==
  LET issued == DateParse(issuedAt)
      durMs == parseDurationMs(expiresIn)
  IN IF issued = NaN THEN FALSE
     ELSE IF durMs <= 0 THEN FALSE
     ELSE t >= issued - skewMs /\ t <= issued + durMs + skewMs

\* ------------------------------------------------------------- nonces
\* nonceStore is a function from the nonces it holds to their expiry (ms)
\* issueNonce starting a new map
issueNonceStore_Reset(store, nonce, ttlSec, t) ==
  [n \in {nonce} |-> t + ttlSec * MsPerSec]

issueNonceStore(store, nonce, ttlSec, t) ==
  [n \in DOMAIN store \cup {nonce} |-> IF n = nonce THEN t + ttlSec * MsPerSec ELSE store[n]]

\* the key a text is looked up under: only a UUID the server made can be one
NonceKey(v) == IF v.kind = "uuid" THEN v.num ELSE 0

\* consumeNonce without its delete
consumeNonce_NoDelete(store, nonce, t) ==
  LET k == NonceKey(nonce)
      exp == IF k \in DOMAIN store THEN store[k] ELSE 0
  IN IF exp = 0 THEN [ok |-> FALSE, store |-> store]
     ELSE [ok |-> exp > t, store |-> store]

\* consumeNonce testing the expiry before it deletes
consumeNonce_KeepExpired(store, nonce, t) ==
  LET k == NonceKey(nonce)
      exp == IF k \in DOMAIN store THEN store[k] ELSE 0
  IN IF exp = 0 \/ exp <= t THEN [ok |-> FALSE, store |-> store]
     ELSE [ok |-> TRUE, store |-> [n \in DOMAIN store \ {k} |-> store[n]]]

\* consumeNonce deleting only what has expired
consumeNonce_DeleteOnlyExpired(store, nonce, t) ==
  LET k == NonceKey(nonce)
      exp == IF k \in DOMAIN store THEN store[k] ELSE 0
  IN IF exp = 0 THEN [ok |-> FALSE, store |-> store]
     ELSE IF exp > t THEN [ok |-> TRUE, store |-> store]
     ELSE [ok |-> FALSE, store |-> [n \in DOMAIN store \ {k} |-> store[n]]]

\* consumeNonce: [ok, store], store being the registry afterwards
consumeNonce(store, nonce, t) ==
  LET k == NonceKey(nonce)
      exp == IF k \in DOMAIN store THEN store[k] ELSE 0
  IN IF exp = 0 THEN [ok |-> FALSE, store |-> store]
     ELSE [ok |-> exp > t, store |-> [n \in DOMAIN store \ {k} |-> store[n]]]

\* ---------------------------------------------------------- signatures
\* A signature is what a key signed: signer and text, and its length as a
\* string.  signatureVerify throws unless it is 64..66 bytes long.
SigBytes(signature) == (signature.len - 2) \div 2

\* verifySignature against the key that signed, not the claimed address
verifySignature_AnySigner(address, message, signature) ==
  IF SigBytes(signature) \notin 64..66 THEN "throws"
  ELSE IF signature.text = message THEN "valid"
  ELSE "invalid"

verifySignature(address, message, signature) ==
  IF SigBytes(signature) \notin 64..66 THEN "throws"
  ELSE IF signature.signer = address /\ signature.text = message THEN "valid"
  ELSE "invalid"

\* SignedMessageSchema: address.min(3), message.min(5), signature.min(10).
\* Every line of a message here is longer than 5 characters, so a message
\* is shorter than 5 exactly when it has no line.
SchemaOk(req) ==
  /\ Len(req.address) >= 3
  /\ Len(req.message) >= 1
  /\ req.signature.len >= 10

\* ---------------------------------------------------------------- gate
toSafeBigInt(n) == IF n = NaN THEN 0 ELSE n

ThresholdRaw(thresholdHuman, decimals) == thresholdHuman * Pow(10, decimals)

\* what getVFTBalance returns for the outcome of svc.balanceOf
getVFTBalance(outcome, chainBalance) ==
  IF outcome = "ok" THEN ToNumber(chainBalance) ELSE 0

\* the comparison denying only a balance of zero
BelowThreshold_ZeroOnly(balRawNumber, thresholdHuman, decimals) ==
  toSafeBigInt(balRawNumber) < 1

\* the comparison against the human threshold, the decimals forgotten
BelowThreshold_NoDecimals(balRawNumber, thresholdHuman, decimals) ==
  toSafeBigInt(balRawNumber) < thresholdHuman

BelowThreshold(balRawNumber, thresholdHuman, decimals) ==
  toSafeBigInt(balRawNumber) < ThresholdRaw(thresholdHuman, decimals)

\* toHuman, as the exact fraction num/den
toHuman(v, decimals) ==
  IF decimals <= 0 THEN [num |-> v, den |-> 1]
  ELSE [num |-> v, den |-> Pow(10, decimals)]

\* -------------------------------------------------------------- tokens
EmptyTok == [kind |-> "empty", sub |-> "", hasAccess |-> FALSE, iat |-> 0, exp |-> 0, key |-> ""]
GarbageTok == [kind |-> "garbage", sub |-> "", hasAccess |-> FALSE, iat |-> 0, exp |-> 0, key |-> ""]

NowSec(t) == t \div MsPerSec

\* signJwt leaving hasAccess false
signJwt_NoAccess(address, ttlMin, secret, t) ==
  [kind |-> "jwt", sub |-> address, hasAccess |-> FALSE,
   iat |-> NowSec(t), exp |-> NowSec(t) + ttlMin * SecPerMin, key |-> secret]

\* signJwt with expiresIn given in seconds
signJwt_TtlSeconds(address, ttlMin, secret, t) ==
  [kind |-> "jwt", sub |-> address, hasAccess |-> TRUE,
   iat |-> NowSec(t), exp |-> NowSec(t) + ttlMin, key |-> secret]

signJwt(address, ttlMin, secret, t) ==
  [kind |-> "jwt", sub |-> address, hasAccess |-> TRUE,
   iat |-> NowSec(t), exp |-> NowSec(t) + ttlMin * SecPerMin, key |-> secret]

\* jwt.verify accepting a token in the second it expires
jwtVerify_ExpInclusive(token, secret, t) ==
  /\ token.kind = "jwt"
  /\ token.key = secret
  /\ NowSec(t) <= token.exp

\* jwt.verify with ignoreExpiration
jwtVerify_IgnoreExp(token, secret, t) ==
  /\ token.kind = "jwt"
  /\ token.key = secret

\* jwt.verify: TRUE when it returns the payload, FALSE when it throws
jwtVerify(token, secret, t) ==
  /\ token.kind = "jwt"
  /\ token.key = secret
  /\ NowSec(t) < token.exp

\* secondsUntil with Date.now() left in milliseconds
secondsUntil_Ms(exp, t) == IF exp = 0 THEN 0 ELSE exp - t

secondsUntil(exp, t) == IF exp = 0 THEN 0 ELSE exp - NowSec(t)

\* an Authorization header: "Bearer <tok>" (bearer) or "<tok>" alone
getBearerToken(header) ==
  IF header.bearer /\ header.tok.kind /= "empty" THEN header.tok ELSE EmptyTok

\* /entitlement strips a leading "Bearer " and takes what is left
stripBearer(header) == header.tok

\* --------------------------------------------------------------- state
VARIABLES
  now,                 \* Date.now()
  nonceStore,          \* auth.ts nonceStore: nonce -> expiry
  gearApi,             \* server.ts gearApi: "null" or "connected"
  RECHECK_ON_REFRESH,  \* configuration, fixed at start-up
  verifying,           \* /auth/verify requests suspended at the balance fetch
  refreshing,          \* /auth/refresh requests suspended at the balance fetch
  tokens,              \* history: the tokens signed with JWT_SECRET so far
  denied,              \* history: tokens presented to a refresh answered 403
  nonceHist,           \* history: per nonce, its expiry and its consumeNonce calls
  last,                \* the response this step sent (Blank when it sent none),
                       \* with what its request was and saw
  eval                 \* one evaluation of the balance gate: its inputs and result

vars == <<now, nonceStore, gearApi, RECHECK_ON_REFRESH, verifying, refreshing,
          tokens, denied, nonceHist, last, eval>>

Addresses == {"5Alice", "5Bob"}
NonceIds == 1..MaxRegistry

NoSig == [signer |-> "", text |-> <<>>, len |-> 0]
NoReq == [address |-> "", message |-> <<>>, signature |-> NoSig]
NoHeader == [bearer |-> FALSE, tok |-> EmptyTok]
NoFrac == [num |-> 0, den |-> 0]
NoGate == [shown |-> FALSE, balance |-> NoFrac, threshold |-> NoFrac, decimals |-> 0]

\* a response: what was sent (status, error, jwt, refreshed, remainingSec,
\* gate, address, hasAccess) and, for the properties, what the request was and
\* saw (asked: the address whose balance it fetched)
Blank ==
  [op |-> "none", status |-> 0, error |-> "", jwt |-> EmptyTok, refreshed |-> FALSE,
   remainingSec |-> 0, gate |-> NoGate,
   req |-> NoReq, header |-> NoHeader, nonce |-> 0, reached |-> FALSE, nonceOk |-> FALSE,
   address |-> "", hasAccess |-> FALSE,
   at |-> 0, fetch |-> "none", asked |-> "", bal |-> 0, minted |-> FALSE]

\* issued: issueNonce returned it; calls: consumeNonce calls on it;
\* firstLive: the first such call came before its expiry; firstOk: what that
\* call returned; trues: calls that returned true; grants: tokens issued to
\* requests carrying it (all three counted up to 2)
NoHist == [issued |-> FALSE, calls |-> 0, firstLive |-> FALSE, firstOk |-> FALSE,
           trues |-> 0, grants |-> 0]

\* Tokens outlive the process that signed them: a client still holds one
\* that the previous run of the server signed a millisecond before this one
\* began, in the last second of that run.
PriorSignedAt == 0 - 1
PriorToken == signJwt("5Bob", JWT_TTL_MIN, JWT_SECRET, PriorSignedAt)

NoEval == [balance |-> 0, thresholdHuman |-> 0, decimals |-> 0, done |-> FALSE,
           hasAccess |-> FALSE]

Init ==
  /\ eval = NoEval
  /\ now = 0
  /\ nonceStore = <<>>
  /\ gearApi = "null"
  /\ RECHECK_ON_REFRESH \in BOOLEAN
  /\ verifying = {}
  /\ refreshing = {}
  /\ tokens = {PriorToken}
  /\ denied = {}
  /\ nonceHist = [n \in NonceIds |-> NoHist]
  /\ last = Blank

\* time passes
Tick ==
  /\ last = Blank
  /\ now < MaxTime
  /\ now' = now + 1
  /\ last' = Blank
  /\ UNCHANGED <<eval, nonceStore, gearApi, RECHECK_ON_REFRESH, verifying, refreshing,
                 tokens, denied, nonceHist>>

\* randomUUID: a value never returned before
IssuedCount == Cardinality({n \in NonceIds : nonceHist[n].issued})
randomUUID == IssuedCount + 1

\* POST /auth/nonce, while fewer than limit nonces were issued
IssueUpTo(limit) ==
  /\ last = Blank
  /\ IssuedCount < limit
  /\ LET nonce == randomUUID IN
     /\ nonceStore' = issueNonceStore(nonceStore, nonce, NONCE_TTL, now)
     /\ nonceHist' = [nonceHist EXCEPT ![nonce] = [NoHist EXCEPT !.issued = TRUE]]
     /\ last' = [Blank EXCEPT !.op = "nonce", !.status = 200, !.nonce = nonce,
                              !.at = now]
  /\ UNCHANGED <<eval, now, gearApi, RECHECK_ON_REFRESH, verifying, refreshing, tokens, denied>>

AuthNonce == IssueUpTo(MaxNonces)

\* ------------------------------------------------------ /auth/verify
ErrorOfKey(key) ==
  CASE key = "Nonce" -> "Error: Nonce"
    [] key = "Domain" -> "Error: Domain"
    [] key = "ChainId" -> "Error: ChainId"
    [] key = "IssuedAt" -> "Error: IssuedAt"
    [] OTHER -> "Error: ExpiresIn"

\* the handler with the domain check moved before the nonce step
verifySync_DomainFirst(req, store, t) ==
  LET message == req.message
      nonce == extractLine(message, "Nonce")
      domain == extractLine(message, "Domain")
      chainId == extractLine(message, "ChainId")
      issuedAt == extractLine(message, "IssuedAt")
      expiresIn == extractLine(message, "ExpiresIn")
      c == consumeNonce(store, nonce, t)
      sig == verifySignature(req.address, message, req.signature)
      Out(status, error, st, reached, ok) ==
        [status |-> status, error |-> error, store |-> st, reached |-> reached, nonceOk |-> ok]
  IN IF ~SchemaOk(req) THEN Out(400, "ZodError", store, FALSE, FALSE)
     ELSE IF FirstMissing(message) /= ""
       THEN Out(400, ErrorOfKey(FirstMissing(message)), store, FALSE, FALSE)
     ELSE IF EXPECTED_DOMAIN /= "" /\ domain /= TextVal(EXPECTED_DOMAIN)
       THEN Out(400, "Invalid domain", store, FALSE, FALSE)
     ELSE IF ~c.ok THEN Out(400, "Invalid Nonce", c.store, TRUE, FALSE)
     ELSE IF EXPECTED_CHAIN_ID /= "" /\ chainId /= TextVal(EXPECTED_CHAIN_ID)
       THEN Out(400, "Invalid chainId", c.store, TRUE, TRUE)
     ELSE IF ~isMessageFresh(issuedAt, expiresIn, CLOCK_SKEW_MS, t)
       THEN Out(400, "Message Error", c.store, TRUE, TRUE)
     ELSE IF sig = "throws" THEN Out(400, "Invalid signature length", c.store, TRUE, TRUE)
     ELSE IF sig /= "valid" THEN Out(401, "firma invalida", c.store, TRUE, TRUE)
     ELSE Out(0, "", c.store, TRUE, TRUE)

\* the handler consuming the nonce as soon as it has extracted it, before it
\* looks for the other fields
verifySync_ConsumeEarly(req, store, t) ==
  LET message == req.message
      nonce == extractLine(message, "Nonce")
      domain == extractLine(message, "Domain")
      chainId == extractLine(message, "ChainId")
      issuedAt == extractLine(message, "IssuedAt")
      expiresIn == extractLine(message, "ExpiresIn")
      c == consumeNonce(store, nonce, t)
      sig == verifySignature(req.address, message, req.signature)
      Out(status, error, st, reached, ok) ==
        [status |-> status, error |-> error, store |-> st, reached |-> reached, nonceOk |-> ok]
  IN IF ~SchemaOk(req) THEN Out(400, "ZodError", store, FALSE, FALSE)
     ELSE IF mustExtractThrows(message, "Nonce")
       THEN Out(400, ErrorOfKey("Nonce"), store, FALSE, FALSE)
     ELSE IF FirstMissing(message) /= ""
       THEN Out(400, ErrorOfKey(FirstMissing(message)), c.store, FALSE, FALSE)
     ELSE IF ~c.ok THEN Out(400, "Invalid Nonce", c.store, TRUE, FALSE)
     ELSE IF EXPECTED_DOMAIN /= "" /\ domain /= TextVal(EXPECTED_DOMAIN)
       THEN Out(400, "Invalid domain", c.store, TRUE, TRUE)
     ELSE IF EXPECTED_CHAIN_ID /= "" /\ chainId /= TextVal(EXPECTED_CHAIN_ID)
       THEN Out(400, "Invalid chainId", c.store, TRUE, TRUE)
     ELSE IF ~isMessageFresh(issuedAt, expiresIn, CLOCK_SKEW_MS, t)
       THEN Out(400, "Message Error", c.store, TRUE, TRUE)
     ELSE IF sig = "throws" THEN Out(400, "Invalid signature length", c.store, TRUE, TRUE)
     ELSE IF sig /= "valid" THEN Out(401, "firma invalida", c.store, TRUE, TRUE)
     ELSE Out(0, "", c.store, TRUE, TRUE)

\* The handler up to its first await: [status, error, store, reached, nonceOk].
\* status 0 means it goes on to the balance fetch; reached says consumeNonce
\* was called; store is the registry afterwards.
verifySync(req, store, t) ==
  LET message == req.message
      nonce == extractLine(message, "Nonce")
      domain == extractLine(message, "Domain")
      chainId == extractLine(message, "ChainId")
      issuedAt == extractLine(message, "IssuedAt")
      expiresIn == extractLine(message, "ExpiresIn")
      c == consumeNonce(store, nonce, t)
      sig == verifySignature(req.address, message, req.signature)
      Out(status, error, st, reached, ok) ==
        [status |-> status, error |-> error, store |-> st, reached |-> reached, nonceOk |-> ok]
  IN IF ~SchemaOk(req) THEN Out(400, "ZodError", store, FALSE, FALSE)
     ELSE IF FirstMissing(message) /= ""
       THEN Out(400, ErrorOfKey(FirstMissing(message)), store, FALSE, FALSE)
     ELSE IF ~c.ok THEN Out(400, "Invalid Nonce", c.store, TRUE, FALSE)
     ELSE IF EXPECTED_DOMAIN /= "" /\ domain /= TextVal(EXPECTED_DOMAIN)
       THEN Out(400, "Invalid domain", c.store, TRUE, TRUE)
     ELSE IF EXPECTED_CHAIN_ID /= "" /\ chainId /= TextVal(EXPECTED_CHAIN_ID)
       THEN Out(400, "Invalid chainId", c.store, TRUE, TRUE)
     ELSE IF ~isMessageFresh(issuedAt, expiresIn, CLOCK_SKEW_MS, t)
       THEN Out(400, "Message Error", c.store, TRUE, TRUE)
     ELSE IF sig = "throws" THEN Out(400, "Invalid signature length", c.store, TRUE, TRUE)
     ELSE IF sig /= "valid" THEN Out(401, "firma invalida", c.store, TRUE, TRUE)
     ELSE Out(0, "", c.store, TRUE, TRUE)

\* the record of a consumeNonce call on an issued nonce
LogConsume(hist, key, live, ok) ==
  IF key \notin NonceIds \/ ~hist[key].issued THEN hist
  ELSE [hist EXCEPT ![key] =
          [@ EXCEPT !.calls = IF @ < 2 THEN @ + 1 ELSE @,
                    !.firstLive = IF hist[key].calls > 0 THEN @ ELSE live,
                    !.firstOk = IF hist[key].calls > 0 THEN @ ELSE ok,
                    !.trues = IF ok /\ @ < 2 THEN @ + 1 ELSE @]]

\* the requests a client sends at time t
GoodSig(a, m) == [signer |-> a, text |-> m, len |-> 130]

Msg(n, d, c, i, e) ==
  SelectSeq(<<[key |-> "Nonce", val |-> n], [key |-> "Domain", val |-> d],
              [key |-> "ChainId", val |-> c], [key |-> "IssuedAt", val |-> i],
              [key |-> "ExpiresIn", val |-> e]>>,
            LAMBDA l : l.val /= EmptyVal)

GoodExpiresIn == CharsVal(<<" ", "1", " ", "S">>)

Faults ==
  {"short_address", "empty_message", "short_signature", "no_nonce", "no_domain",
   "no_chain", "no_issued", "no_expires", "evil_domain", "bad_date", "zero_duration",
   "junk_duration", "wrong_signer", "other_text", "bad_sig_length"}

\* a request of address a with nonce n issued at instant i, with one fault
BuildReq(a, n, i, f) ==
  LET message ==
        IF f = "empty_message" THEN <<>>
        ELSE Msg(IF f = "no_nonce" THEN EmptyVal ELSE UuidVal(n),
                 IF f = "no_domain" THEN EmptyVal
                   ELSE IF f = "evil_domain" THEN TextVal("evil.example")
                   ELSE TextVal("app.example"),
                 IF f = "no_chain" THEN EmptyVal ELSE TextVal("vara"),
                 IF f = "no_issued" THEN EmptyVal
                   ELSE IF f = "bad_date" THEN TextVal("yesterday")
                   ELSE DateVal(i),
                 IF f = "no_expires" THEN EmptyVal
                   ELSE IF f = "zero_duration" THEN CharsVal(<<"0", "m">>)
                   ELSE IF f = "junk_duration" THEN CharsVal(<<"1", "x">>)
                   ELSE GoodExpiresIn)
      other == CHOOSE b \in Addresses : b /= a
  IN [address |-> IF f = "short_address" THEN "x" ELSE a,
      message |-> message,
      signature |->
        IF f = "short_signature" THEN [signer |-> a, text |-> message, len |-> 4]
        ELSE IF f = "bad_sig_length" THEN [signer |-> a, text |-> message, len |-> 20]
        ELSE IF f = "wrong_signer" THEN GoodSig(other, message)
        ELSE IF f = "other_text" THEN GoodSig(a, <<>>)
        ELSE GoodSig(a, message)]

\* IssuedAt against the clock: the window's two ends and one tick beyond each
IssuedAtOffsets ==
  LET dur == parseDurationMs(GoodExpiresIn) IN
  {-(dur + CLOCK_SKEW_MS) - 1, -(dur + CLOCK_SKEW_MS), CLOCK_SKEW_MS, CLOCK_SKEW_MS + 1}

\* the nonces a client can name: those issued so far, and one never issued
KnownNonces == {n \in NonceIds : nonceHist[n].issued} \cup {MaxRegistry + 1}

VerifyRequests(t) ==
  {BuildReq(a, n, t + d, "none") : a \in Addresses, n \in KnownNonces, d \in IssuedAtOffsets}
  \cup {BuildReq("5Alice", n, t + CLOCK_SKEW_MS, f) : n \in KnownNonces, f \in Faults}

\* POST /auth/verify, up to the await of the balance
VerifyStart(req) ==
  LET r == verifySync(req, nonceStore, now)
      key == NonceKey(extractLine(req.message, "Nonce"))
      live == key \in DOMAIN nonceStore /\ now < nonceStore[key]
  IN /\ last = Blank
     /\ r.status = 0 => Cardinality(verifying) < MaxInflight
     /\ nonceStore' = r.store
     /\ nonceHist' = IF r.reached THEN LogConsume(nonceHist, key, live, r.nonceOk) ELSE nonceHist
     /\ IF r.status = 0
          THEN /\ verifying' = verifying \cup {[req |-> req, at |-> now]}
               /\ last' = Blank
          ELSE /\ last' = [Blank EXCEPT !.op = "verify", !.status = r.status,
                                        !.error = r.error, !.nonce = key,
                                        !.reached = r.reached,
                                        !.nonceOk = r.nonceOk, !.at = now]
               /\ UNCHANGED verifying
     /\ UNCHANGED <<eval, now, gearApi, RECHECK_ON_REFRESH, refreshing, tokens, denied>>

\* what the chain can answer to svc.balanceOf, and how the call can end
ChainBalances ==
  {ThresholdRaw(VFT_THRESHOLD_HUMAN, VFT_DECIMALS) \div 2,
   ThresholdRaw(VFT_THRESHOLD_HUMAN, VFT_DECIMALS) - 1,
   ThresholdRaw(VFT_THRESHOLD_HUMAN, VFT_DECIMALS)}
FetchOutcomes == {"ok", "nan", "error"}

GateBody(balRawInt) ==
  [shown |-> TRUE, balance |-> toHuman(balRawInt, VFT_DECIMALS),
   threshold |-> toHuman(ThresholdRaw(VFT_THRESHOLD_HUMAN, VFT_DECIMALS), VFT_DECIMALS),
   decimals |-> VFT_DECIMALS]

\* a token can be signed while the run has room for it
Room(token) == Cardinality(tokens \cup {token}) <= MaxTokens

\* POST /auth/verify: getApi() throws (GearApi.create failed), caught: 400
VerifyApiFails(v) ==
  /\ last = Blank
  /\ v \in verifying
  /\ gearApi = "null"
  /\ verifying' = verifying \ {v}
  /\ last' = [Blank EXCEPT !.op = "verify", !.status = 400, !.error = "GearApi",
                           !.req = v.req, !.nonce = NonceKey(extractLine(v.req.message, "Nonce")),
                           !.reached = TRUE, !.nonceOk = TRUE, !.at = v.at,
                           !.fetch = "apifail"]
  /\ UNCHANGED <<eval, now, nonceStore, gearApi, RECHECK_ON_REFRESH, refreshing, tokens,
                 denied, nonceHist>>

\* POST /auth/verify, from the balance to the response
VerifyResume(v, outcome, chain) ==
  LET balRawNumber == getVFTBalance(outcome, chain)
      balRawInt == toSafeBigInt(balRawNumber)
      key == NonceKey(extractLine(v.req.message, "Nonce"))
      token == signJwt(v.req.address, JWT_TTL_MIN, JWT_SECRET, now)
      seen == [Blank EXCEPT !.op = "verify", !.req = v.req, !.nonce = key,
                            !.reached = TRUE, !.nonceOk = TRUE,
                            !.at = v.at, !.fetch = outcome, !.asked = v.req.address,
                            !.bal = balRawInt,
                            !.gate = GateBody(balRawInt)]
  IN /\ last = Blank
     /\ v \in verifying
     /\ gearApi' = "connected"
     /\ verifying' = verifying \ {v}
     /\ IF BelowThreshold(balRawNumber, VFT_THRESHOLD_HUMAN, VFT_DECIMALS)
          THEN /\ last' = [seen EXCEPT !.status = 403, !.error = "gating: balance insuficiente"]
               /\ UNCHANGED <<tokens, nonceHist>>
          ELSE /\ Room(token)
               /\ tokens' = tokens \cup {token}
               /\ nonceHist' = IF key \in NonceIds
                                 THEN [nonceHist EXCEPT ![key].grants = IF @ < 2 THEN @ + 1 ELSE @]
                                 ELSE nonceHist
               /\ last' = [seen EXCEPT !.status = 200, !.jwt = token, !.minted = TRUE]
     /\ UNCHANGED <<eval, now, nonceStore, RECHECK_ON_REFRESH, refreshing, denied>>

\* ------------------------------------------------------ /auth/refresh
Forge(token) == [token EXCEPT !.key = "attacker"]

\* the Authorization headers a client can send: a token it was given, one
\* it signed itself, something that is no token, or nothing
Headers ==
  {[bearer |-> TRUE, tok |-> k] : k \in tokens \cup {Forge(k) : k \in tokens} \cup {GarbageTok}}
  \cup {[bearer |-> FALSE, tok |-> k] : k \in tokens \cup {EmptyTok}}

\* POST /auth/refresh, up to the await of the balance (or to the response)
RefreshStart(header) ==
  LET token == getBearerToken(header)
      remain == secondsUntil(token.exp, now)
      newJwt == signJwt(token.sub, JWT_TTL_MIN, JWT_SECRET, now)
      seen == [Blank EXCEPT !.op = "refresh", !.header = header, !.at = now]
  IN /\ last = Blank
     /\ IF token = EmptyTok
          THEN /\ last' = [seen EXCEPT !.status = 401, !.error = "falta token"]
               /\ UNCHANGED <<refreshing, tokens>>
        ELSE IF ~jwtVerify(token, JWT_SECRET, now)
          THEN /\ last' = [seen EXCEPT !.status = 401, !.error = "Invalid token"]
               /\ UNCHANGED <<refreshing, tokens>>
        ELSE IF remain > REFRESH_MIN_REMAIN_SEC
          THEN /\ last' = [seen EXCEPT !.status = 200, !.jwt = token,
                                       !.remainingSec = remain, !.refreshed = FALSE]
               /\ UNCHANGED <<refreshing, tokens>>
        ELSE IF RECHECK_ON_REFRESH
          THEN /\ Cardinality(refreshing) < MaxInflight
               /\ refreshing' = refreshing \cup {[header |-> header, at |-> now]}
               /\ last' = Blank
               /\ UNCHANGED tokens
        ELSE /\ Room(newJwt)
             /\ tokens' = tokens \cup {newJwt}
             /\ last' = [seen EXCEPT !.status = 200, !.jwt = newJwt, !.refreshed = TRUE,
                                     !.remainingSec = secondsUntil(newJwt.exp, now),
                                     !.minted = TRUE]
             /\ UNCHANGED refreshing
     /\ UNCHANGED <<eval, now, nonceStore, gearApi, RECHECK_ON_REFRESH, verifying, denied, nonceHist>>

\* POST /auth/refresh: getApi() throws, caught by the handler's catch: 401
RefreshApiFails(r) ==
  /\ last = Blank
  /\ r \in refreshing
  /\ gearApi = "null"
  /\ refreshing' = refreshing \ {r}
  /\ last' = [Blank EXCEPT !.op = "refresh", !.status = 401, !.error = "Invalid token",
                           !.header = r.header, !.at = r.at,
                           !.fetch = "apifail"]
  /\ UNCHANGED <<eval, now, nonceStore, gearApi, RECHECK_ON_REFRESH, verifying, tokens,
                 denied, nonceHist>>

\* POST /auth/refresh with recheck, from the balance to the response
RefreshResume(r, outcome, chain) ==
  LET payload == getBearerToken(r.header)
      balRawNumber == getVFTBalance(outcome, chain)
      balRawInt == toSafeBigInt(balRawNumber)
      newJwt == signJwt(payload.sub, JWT_TTL_MIN, JWT_SECRET, now)
      seen == [Blank EXCEPT !.op = "refresh", !.header = r.header, !.at = r.at,
                            !.fetch = outcome, !.asked = payload.sub,
                            !.bal = balRawInt]
  IN /\ last = Blank
     /\ r \in refreshing
     /\ gearApi' = "connected"
     /\ refreshing' = refreshing \ {r}
     /\ IF BelowThreshold(balRawNumber, VFT_THRESHOLD_HUMAN, VFT_DECIMALS)
          THEN /\ last' = [seen EXCEPT !.status = 403,
                                       !.error = "gating: Insuficient Balance (refresh)",
                                       !.gate = GateBody(balRawInt)]
               /\ denied' = denied \cup {payload}
               /\ UNCHANGED tokens
          ELSE /\ Room(newJwt)
               /\ tokens' = tokens \cup {newJwt}
               /\ last' = [seen EXCEPT !.status = 200, !.jwt = newJwt, !.refreshed = TRUE,
                                       !.remainingSec = secondsUntil(newJwt.exp, now),
                                       !.minted = TRUE]
               /\ UNCHANGED denied
     /\ UNCHANGED <<eval, now, nonceStore, RECHECK_ON_REFRESH, verifying, nonceHist>>

\* ------------------------------------------------------ /entitlement
Entitlement(header) ==
  LET token == stripBearer(header)
      seen == [Blank EXCEPT !.op = "entitlement", !.header = header, !.at = now]
  IN /\ last = Blank
     /\ last' =
          IF token = EmptyTok THEN [seen EXCEPT !.status = 401, !.error = "Token Error"]
          ELSE IF ~jwtVerify(token, JWT_SECRET, now)
            THEN [seen EXCEPT !.status = 401, !.error = "Invalid token"]
          ELSE [seen EXCEPT !.status = 200, !.address = token.sub, !.hasAccess = token.hasAccess]
     /\ UNCHANGED <<eval, now, nonceStore, gearApi, RECHECK_ON_REFRESH, verifying, refreshing,
                    tokens, denied, nonceHist>>

\* the response is on the wire; the server takes its next event
Sent ==
  /\ last /= Blank
  /\ last' = Blank
  /\ UNCHANGED <<eval, now, nonceStore, gearApi, RECHECK_ON_REFRESH, verifying, refreshing,
                 tokens, denied, nonceHist>>

Next ==
  \/ Sent
  \/ Tick
  \/ AuthNonce
  \/ \E req \in VerifyRequests(now) : VerifyStart(req)
  \/ \E v \in verifying : VerifyApiFails(v)
  \/ \E v \in verifying, o \in FetchOutcomes, c \in ChainBalances : VerifyResume(v, o, c)
  \/ \E h \in Headers : RefreshStart(h)
  \/ \E r \in refreshing : RefreshApiFails(r)
  \/ \E r \in refreshing, o \in FetchOutcomes, c \in ChainBalances : RefreshResume(r, o, c)
  \/ \E h \in Headers : Entitlement(h)

Spec == Init /\ [][Next]_vars

\* ------------------------------------------------- the gate on its own
\* The gating decision of /auth/verify and /auth/refresh for a balance held
\* on chain, a threshold and a number of decimals: the balance as
\* getVFTBalance returns it, then toSafeBigInt and the comparison.
hasAccess(chainBalance, thresholdHuman, decimals) ==
  ~BelowThreshold(getVFTBalance("ok", chainBalance), thresholdHuman, decimals)

InitGate ==
  /\ eval \in [balance : 0..MaxBalance, thresholdHuman : 0..MaxThresholdHuman,
                decimals : 0..MaxDecimals, done : {FALSE}, hasAccess : {FALSE}]
  /\ now = 0
  /\ nonceStore = <<>>
  /\ gearApi = "connected"
  /\ RECHECK_ON_REFRESH = TRUE
  /\ verifying = {}
  /\ refreshing = {}
  /\ tokens = {}
  /\ denied = {}
  /\ nonceHist = [n \in NonceIds |-> NoHist]
  /\ last = Blank

Evaluate ==
  /\ ~eval.done
  /\ eval' = [eval EXCEPT !.done = TRUE,
                          !.hasAccess = hasAccess(eval.balance, eval.thresholdHuman, eval.decimals)]
  /\ UNCHANGED <<now, nonceStore, gearApi, RECHECK_ON_REFRESH, verifying, refreshing,
                 tokens, denied, nonceHist, last>>

NextGate == Evaluate

SpecGate == InitGate /\ [][NextGate]_vars

\* ============================================================ properties
TheThreshold == ThresholdRaw(VFT_THRESHOLD_HUMAN, VFT_DECIMALS)

\* the nonce a verify request carries in its message
Carried(req) == NonceKey(extractLine(req.message, "Nonce"))

\* a token that validates at time t: signed with the secret, not yet expired
Validates(tok, t) == tok \in tokens /\ tok.key = JWT_SECRET /\ NowSec(t) < tok.exp

\* seconds a token has left at time t
Remaining(tok, t) == tok.exp - NowSec(t)

\* C1: for every issued nonce, consumeNonce returns true at most once; a first
\* call made before the expiry returns true, and no later call returns true.
C1_ConsumeOnce ==
  \A n \in NonceIds :
    LET h == nonceHist[n] IN
    h.issued =>
      /\ h.trues <= 1
      /\ (h.calls >= 1 /\ h.firstLive) => h.firstOk
      /\ h.trues = 1 => h.firstOk

\* a nonce consumed in time and then presented again
C1_Witness ==
  \E n \in NonceIds :
    nonceHist[n].calls = 2 /\ nonceHist[n].firstLive /\ nonceHist[n].firstOk
      /\ nonceHist[n].trues = 1

\* C2: a nonce whose expiry has been reached when consumeNonce is first called
\* on it gets false, is removed by that call, and never gets true later.
C2_ExpiredRejected ==
  \A n \in NonceIds :
    LET h == nonceHist[n] IN
    (h.issued /\ h.calls >= 1 /\ ~h.firstLive) =>
      /\ ~h.firstOk
      /\ h.trues = 0
      /\ n \notin DOMAIN nonceStore

\* a nonce first presented at or after its expiry, and presented once more
C2_Witness ==
  \E n \in NonceIds :
    nonceHist[n].issued /\ nonceHist[n].calls = 2 /\ ~nonceHist[n].firstLive

\* a verify request answered while another one carrying the same nonce is
\* suspended at its balance fetch
Concurrent ==
  /\ last.op = "verify"
  /\ last.nonce \in NonceIds
  /\ \E v \in verifying : Carried(v.req) = last.nonce

\* C3 (as stated): of the verify requests carrying one nonce that are processed
\* concurrently, at most one passes the nonce check, at most one is issued a
\* token, and every other one is rejected with Invalid Nonce.
C3_AsStated ==
  /\ \A n \in NonceIds : nonceHist[n].trues <= 1 /\ nonceHist[n].grants <= 1
  /\ (Concurrent /\ ~last.nonceOk) => (last.status = 400 /\ last.error = "Invalid Nonce")

\* C3 (amended): as above, but Invalid Nonce is the answer for every other
\* request that reaches the nonce check; one rejected earlier, at input-shape
\* or field validation, gets that error.
C3_OneWinner ==
  /\ \A n \in NonceIds : nonceHist[n].trues <= 1 /\ nonceHist[n].grants <= 1
  /\ (Concurrent /\ ~last.nonceOk /\ last.reached) =>
       (last.status = 400 /\ last.error = "Invalid Nonce")
  /\ (Concurrent /\ ~last.reached) =>
       (last.status = 400 /\ last.error /= "Invalid Nonce" /\ ~last.minted)

\* a second verify with the nonce of a suspended one, sent away
C3_Witness ==
  Concurrent /\ last.reached /\ last.error = "Invalid Nonce"

\* the message's validity window holds the time t
FreshAt(req, t) ==
  LET issuedAt == extractLine(req.message, "IssuedAt")
      dur == parseDurationMs(extractLine(req.message, "ExpiresIn"))
  IN /\ issuedAt.kind = "date"
     /\ dur > 0
     /\ issuedAt.num - CLOCK_SKEW_MS <= t
     /\ t <= issuedAt.num + dur + CLOCK_SKEW_MS

\* C4: /auth/verify issues a token only if, in that request, the input was well
\* shaped, the five fields were present, the nonce was present, unexpired and
\* consumed by it, domain and chain id matched what is configured, the message
\* was fresh, the signature was the claimed address's over the message, and the
\* fetched balance reached the threshold; the token's subject is that address.
C4_TokenOnlyIfAllChecks ==
  (last.op = "verify" /\ (last.minted \/ last.jwt /= EmptyTok)) =>
    LET req == last.req
        n == Carried(req)
    IN /\ Len(req.address) >= 3 /\ req.message /= <<>> /\ req.signature.len >= 10
       /\ \A i \in 1..Len(RequiredKeys) : extractLine(req.message, RequiredKeys[i]) /= EmptyVal
       /\ n \in NonceIds
       /\ nonceHist[n].issued /\ nonceHist[n].firstLive /\ nonceHist[n].firstOk
       /\ nonceHist[n].trues = 1 /\ nonceHist[n].grants = 1
       /\ n \notin DOMAIN nonceStore
       /\ EXPECTED_DOMAIN /= "" => extractLine(req.message, "Domain") = TextVal(EXPECTED_DOMAIN)
       /\ EXPECTED_CHAIN_ID /= "" => extractLine(req.message, "ChainId") = TextVal(EXPECTED_CHAIN_ID)
       /\ FreshAt(req, last.at)
       /\ req.signature.signer = req.address /\ req.signature.text = req.message
       /\ last.fetch \in FetchOutcomes /\ last.bal >= TheThreshold
       /\ last.status = 200
       /\ last.jwt \in tokens /\ last.jwt.sub = req.address

\* /auth/verify has issued a token
C4_Witness == last.op = "verify" /\ last.status = 200 /\ last.minted

\* C5: a verify request past the signature check whose fetched balance is below
\* the threshold is answered 403 with the error, balance, threshold and
\* decimals, and gets no token.
C5_DeniedBelowThreshold ==
  (last.op = "verify" /\ last.req /= NoReq /\ last.fetch \in FetchOutcomes
     /\ last.bal < TheThreshold) =>
    /\ last.status = 403
    /\ last.error = "gating: balance insuficiente"
    /\ last.gate.shown
    /\ last.gate.balance = [num |-> last.bal, den |-> Pow(10, VFT_DECIMALS)]
    /\ last.gate.threshold = [num |-> TheThreshold, den |-> Pow(10, VFT_DECIMALS)]
    /\ last.gate.decimals = VFT_DECIMALS
    /\ ~last.minted /\ last.jwt = EmptyTok

\* a signed, fresh request denied for a balance that is positive but too small
C5_Witness ==
  last.op = "verify" /\ last.status = 403 /\ last.fetch = "ok" /\ last.bal > 0

\* C6 (as stated): the gate grants access exactly when the balance held on
\* chain is at least thresholdHuman * 10^decimals.
C6_ExactGate ==
  eval.done =>
    (eval.hasAccess <=> eval.balance >= eval.thresholdHuman * Pow(10, eval.decimals))

\* C7: /auth/verify lets no message past its freshness check, and issues no
\* token for it, unless IssuedAt parses, the ExpiresIn duration is positive and
\* the server's time lies in [issued - skew, issued + dur + skew].
C7_OnlyFreshMessages ==
  /\ \A v \in verifying : FreshAt(v.req, v.at)
  /\ (last.op = "verify" /\ ~FreshAt(last.req, last.at)) =>
       (last.status \in {400, 401} /\ ~last.minted /\ last.jwt = EmptyTok)
  /\ (last.op = "verify" /\ last.status \in {200, 403}) => FreshAt(last.req, last.at)

\* a token issued for a message handled at the very end of its window
C7_Witness ==
  /\ last.op = "verify" /\ last.status = 200
  /\ last.at = extractLine(last.req.message, "IssuedAt").num
                 + parseDurationMs(extractLine(last.req.message, "ExpiresIn")) + CLOCK_SKEW_MS

\* the refresh answered last was given, as "Bearer <token>", a token that
\* validated when the handler ran
RefreshOfValid ==
  /\ last.op = "refresh"
  /\ last.header.bearer
  /\ Validates(last.header.tok, last.at)

\* C8: a refresh of a valid token with more than the floor left returns the
\* same token with refreshed=false, signs nothing and fetches no balance.
C8_TooEarlyUnchanged ==
  (RefreshOfValid /\ Remaining(last.header.tok, last.at) > REFRESH_MIN_REMAIN_SEC) =>
    /\ last.status = 200
    /\ ~last.refreshed
    /\ last.jwt = last.header.tok
    /\ last.remainingSec = Remaining(last.header.tok, last.at)
    /\ ~last.minted
    /\ last.fetch = "none"

\* a refresh that came too early, with recheck on
C8_Witness ==
  /\ RefreshOfValid /\ RECHECK_ON_REFRESH
  /\ Remaining(last.header.tok, last.at) > REFRESH_MIN_REMAIN_SEC
  /\ last.status = 200

\* C9: a refresh of a valid token at or below the floor, with recheck on and a
\* fetched balance below the threshold, is answered 403 and signs nothing; the
\* token presented stays as it was: /entitlement and /auth/refresh accept it
\* before its expiry and answer 401 from then on.
C9_DeniedNotRevoked ==
  /\ (RefreshOfValid /\ Remaining(last.header.tok, last.at) <= REFRESH_MIN_REMAIN_SEC
        /\ RECHECK_ON_REFRESH /\ last.fetch \in FetchOutcomes /\ last.bal < TheThreshold) =>
       /\ last.status = 403
       /\ ~last.minted /\ last.jwt = EmptyTok
       /\ last.header.tok \in denied
  /\ (last.op = "entitlement" /\ last.header.tok \in denied) =>
       (last.status = 200 <=> NowSec(last.at) < last.header.tok.exp)
         /\ last.status \in {200, 401}
  /\ (last.op = "refresh" /\ last.header.bearer /\ last.header.tok \in denied) =>
       (last.status \in {200, 403} <=> NowSec(last.at) < last.header.tok.exp)
         /\ last.status \in {200, 403, 401}

\* a token refused renewal and accepted by /entitlement afterwards
C9_Witness ==
  last.op = "entitlement" /\ last.header.tok \in denied /\ last.status = 200

\* the answer to a refresh of a valid token at or below the floor, with
\* recheck off or passed
C10_State ==
  (RefreshOfValid /\ Remaining(last.header.tok, last.at) <= REFRESH_MIN_REMAIN_SEC
     /\ (~RECHECK_ON_REFRESH \/ (last.fetch \in FetchOutcomes /\ last.bal >= TheThreshold))) =>
    /\ last.status = 200
    /\ last.refreshed /\ last.minted
    /\ last.jwt \in tokens
    /\ last.jwt.sub = last.header.tok.sub
    /\ last.jwt.hasAccess = last.header.tok.hasAccess
    /\ last.jwt.exp = NowSec(now) + JWT_TTL_MIN * SecPerMin
    /\ last.remainingSec = JWT_TTL_MIN * SecPerMin
    /\ last.req = NoReq

\* a refresh leaves the nonce registry as it was
C10_Frame ==
  last'.op = "refresh" => (nonceStore' = nonceStore /\ nonceHist' = nonceHist)

\* C10: a refresh of a valid token at or below the floor, with recheck off or
\* passed, returns refreshed=true and a newly signed token with the subject and
\* hasAccess of the one presented, expiring the session TTL after the refresh;
\* the handler reads no nonce and leaves the registry alone.
C10_RenewedForSameSubject == [](C10_State) /\ [][C10_Frame]_vars

\* a token renewed after a recheck that passed
C10_Witness ==
  /\ RefreshOfValid /\ RECHECK_ON_REFRESH
  /\ last.status = 200 /\ last.refreshed /\ last.fetch = "ok"

\* ------------------------------------------------------------------ C11
\* the session TTL in milliseconds
TtlMs == JWT_TTL_MIN * SecPerMin * MsPerSec

\* the token a request presented, as its handler reads it
Presented ==
  IF last.op = "refresh" THEN getBearerToken(last.header) ELSE stripBearer(last.header)

\* a response of /entitlement or /auth/refresh to a token this server signed
AnswerToIssued ==
  /\ last.op \in {"entitlement", "refresh"}
  /\ Presented \in tokens

\* the token was taken as valid: /entitlement answered its claims, /auth/refresh
\* answered with a token or with the balance denial
Accepted == last.status \in {200, 403}

ReadFailed == last.fetch \in {"error", "nan", "apifail"}

\* C12 (as stated): a failure to read the balance during /auth/verify or a
\* refresh with recheck counts as a zero balance and ends in the
\* insufficient-balance denial: 403 with a balance of 0, no token, and no
\* other kind of error.
C12_FailureIsZeroBalance ==
  (last.op \in {"verify", "refresh"} /\ ReadFailed) =>
    /\ last.status = 403
    /\ last.gate.shown /\ last.gate.balance.num = 0
    /\ ~last.minted /\ last.jwt = EmptyTok

\* ------------------------------------------------------------------ C13
\* C13 (as stated): every 401 of /auth/refresh and /entitlement is the one
\* generic Invalid token response, whatever made the token fail; and
\* /auth/refresh gives that response only to a token that fails validation.
C13_OneInvalidToken ==
  /\ (last.op \in {"refresh", "entitlement"} /\ last.status = 401) =>
       last.error = "Invalid token"
  /\ (last.op = "refresh" /\ last.error = "Invalid token") =>
       ~jwtVerify(getBearerToken(last.header), JWT_SECRET, last.at)

\* ------------------------------------- /auth/verify, attempt after attempt
\* What /auth/verify does to the registry and answers before its first
\* await, for challenges sent one after another against a registry that
\* holds two nonces: every attempt is kept, with the request, the time, the
\* registry it found and the outcome (status 0: on to the balance fetch).
MaxAttempts == 2

\* the registry after two /auth/nonce calls at time 0
TwoNonces == issueNonceStore(issueNonceStore(<<>>, 1, NONCE_TTL, 0), 2, NONCE_TTL, 0)

\* the challenges a client sends at time t: sound ones naming nonce 1 or 2 or
\* one never issued, and faulty ones naming nonce 1
Challenges(t) ==
  {BuildReq("5Alice", n, t + d, "none") : n \in 1..3, d \in IssuedAtOffsets}
  \cup {BuildReq("5Alice", 1, t + CLOCK_SKEW_MS, f) : f \in Faults}

InitVerify ==
  /\ eval = [attempts |-> <<>>]
  /\ now = 0
  /\ nonceStore = TwoNonces
  /\ gearApi = "null"
  /\ RECHECK_ON_REFRESH = TRUE
  /\ verifying = {}
  /\ refreshing = {}
  /\ tokens = {}
  /\ denied = {}
  /\ nonceHist = [n \in NonceIds |-> NoHist]
  /\ last = Blank

\* POST /auth/verify, up to the await of the balance
Attempt(req) ==
  LET r == verifySync(req, nonceStore, now) IN
  /\ Len(eval.attempts) < MaxAttempts
  /\ nonceStore' = r.store
  /\ eval' = [attempts |-> Append(eval.attempts,
                 [req |-> req, at |-> now, before |-> nonceStore, after |-> r.store,
                  status |-> r.status, error |-> r.error])]
  /\ UNCHANGED <<now, gearApi, RECHECK_ON_REFRESH, verifying, refreshing, tokens, denied,
                 nonceHist, last>>

NextVerify ==
  \/ Tick
  \/ \E req \in Challenges(now) : Attempt(req)

SpecVerify == InitVerify /\ [][NextVerify]_vars

\* ------------------------------------------------------------ C14 .. C16
Attempts == eval.attempts

\* input-shape validation passes
ShapeOk(req) ==
  Len(req.address) >= 3 /\ req.message /= <<>> /\ req.signature.len >= 10

\* the five fields are there and not empty
FieldsPresent(req) ==
  \A i \in 1..Len(RequiredKeys) : extractLine(req.message, RequiredKeys[i]) /= EmptyVal

\* the request gets as far as the nonce step
ReachesNonceStep(req) == ShapeOk(req) /\ FieldsPresent(req)

\* the signature is one the claimed address made over the message
SignatureGood(req) ==
  /\ SigBytes(req.signature) \in 64..66
  /\ req.signature.signer = req.address
  /\ req.signature.text = req.message

\* a request nothing is wrong with, at time t, but perhaps its nonce
Sound(req, t) ==
  /\ ReachesNonceStep(req)
  /\ EXPECTED_DOMAIN /= "" => extractLine(req.message, "Domain") = TextVal(EXPECTED_DOMAIN)
  /\ EXPECTED_CHAIN_ID /= "" => extractLine(req.message, "ChainId") = TextVal(EXPECTED_CHAIN_ID)
  /\ FreshAt(req, t)
  /\ SignatureGood(req)

\* registry store without the entry of n
Without(store, n) == [k \in DOMAIN store \ {n} |-> store[k]]

\* C14: a verify request that reaches the nonce step with a nonce the registry
\* holds removes that nonce, and only it, whatever the request's fate (domain
\* or chain mismatch, staleness, bad signature, or on to the balance fetch);
\* every later verify with that nonce that reaches the nonce step is answered
\* 400 Invalid Nonce, a sound one included.
C14_NonceBurned ==
  \A i \in 1..Len(Attempts) :
    LET a == Attempts[i]
        n == Carried(a.req)
    IN (ReachesNonceStep(a.req) /\ n \in DOMAIN a.before) =>
         /\ a.after = Without(a.before, n)
         /\ n \notin DOMAIN nonceStore
         /\ \A j \in (i + 1)..Len(Attempts) :
              (ReachesNonceStep(Attempts[j].req) /\ Carried(Attempts[j].req) = n) =>
                (Attempts[j].status = 400 /\ Attempts[j].error = "Invalid Nonce")

\* a request with a live nonce rejected after the nonce step, then a sound
\* request with the same nonce, still before its expiry, answered Invalid Nonce
C14_Witness ==
  /\ Len(Attempts) = 2
  /\ LET a == Attempts[1]
         b == Attempts[2]
         n == Carried(a.req)
     IN /\ n \in DOMAIN a.before /\ a.at < a.before[n]
        /\ a.error \in {"Invalid domain", "Message Error", "firma invalida"}
        /\ Carried(b.req) = n /\ Sound(b.req, b.at) /\ b.at < a.before[n]
        /\ b.status = 400 /\ b.error = "Invalid Nonce"

\* no attempt between the i-th and the j-th took nonce n to the nonce step
Untouched(n, i, j) ==
  \A k \in (i + 1)..(j - 1) :
    ~(ReachesNonceStep(Attempts[k].req) /\ Carried(Attempts[k].req) = n)

\* C15: a verify request rejected at input-shape validation or for a missing
\* or empty field is answered 400 and leaves the registry as it was; a live
\* nonce it named is still there for the next request that takes it to the
\* nonce step, which passes the nonce check and consumes it.
C15_MalformedKeepsNonce ==
  \A i \in 1..Len(Attempts) :
    LET a == Attempts[i]
        n == Carried(a.req)
    IN ~ReachesNonceStep(a.req) =>
         /\ a.status = 400 /\ a.error /= "Invalid Nonce"
         /\ a.after = a.before
         /\ \A j \in (i + 1)..Len(Attempts) :
              LET b == Attempts[j] IN
              (n \in DOMAIN a.before /\ b.at < a.before[n] /\ Untouched(n, i, j)
                 /\ ReachesNonceStep(b.req) /\ Carried(b.req) = n) =>
                /\ b.error /= "Invalid Nonce"
                /\ b.after = Without(b.before, n)
                /\ Sound(b.req, b.at) => b.status = 0

\* a request short of a field that names a live nonce, rejected, and then a
\* sound request with that nonce going through to the balance fetch
C15_Witness ==
  /\ Len(Attempts) = 2
  /\ LET a == Attempts[1]
         b == Attempts[2]
         n == Carried(a.req)
     IN /\ ShapeOk(a.req) /\ ~FieldsPresent(a.req)
        /\ n \in DOMAIN a.before /\ a.at < a.before[n]
        /\ Carried(b.req) = n /\ Sound(b.req, b.at)
        /\ b.status = 0

\* the status the first failing check gives a request, by the claim's table
\* (0: no check before the balance fails)
StatusByFirstFailure(req, store, t) ==
  LET n == Carried(req) IN
  IF ~ShapeOk(req) THEN 400
  ELSE IF ~FieldsPresent(req) THEN 400
  ELSE IF ~(n \in DOMAIN store /\ t < store[n]) THEN 400
  ELSE IF EXPECTED_DOMAIN /= "" /\ extractLine(req.message, "Domain") /= TextVal(EXPECTED_DOMAIN)
    THEN 400
  ELSE IF EXPECTED_CHAIN_ID /= "" /\ extractLine(req.message, "ChainId") /= TextVal(EXPECTED_CHAIN_ID)
    THEN 400
  ELSE IF ~FreshAt(req, t) THEN 400
  ELSE IF ~SignatureGood(req) THEN 401
  ELSE 0

\* C16 (as stated): the checks run in the order shape, fields, nonce, domain,
\* chain id, freshness, signature, and the first that fails decides the
\* answer: 400 for the first six, 401 for the signature.
C16_FirstFailureDecides ==
  \A i \in 1..Len(Attempts) :
    Attempts[i].status =
      StatusByFirstFailure(Attempts[i].req, Attempts[i].before, Attempts[i].at)

\* ------------------------------------------------- the registry at large
\* The handlers over a registry that gets up to MaxRegistry nonces, with
\* recheck on refresh switched off.
InitRegistry ==
  /\ eval = NoEval
  /\ now = 0
  /\ nonceStore = <<>>
  /\ gearApi = "null"
  /\ RECHECK_ON_REFRESH = FALSE
  /\ verifying = {}
  /\ refreshing = {}
  /\ tokens = {PriorToken}
  /\ denied = {}
  /\ nonceHist = [n \in NonceIds |-> NoHist]
  /\ last = Blank

AuthNonceMore == IssueUpTo(MaxRegistry)

\* the verify requests sent here: a sound one and four kinds of faulty ones,
\* naming a nonce issued so far or one never issued
RegistryRequests(t) ==
  {BuildReq("5Alice", n, t + CLOCK_SKEW_MS, f) :
     n \in KnownNonces, f \in {"none", "no_nonce", "no_domain", "evil_domain", "wrong_signer"}}

NextRegistry ==
  \/ Sent
  \/ Tick
  \/ AuthNonceMore
  \/ \E req \in RegistryRequests(now) : VerifyStart(req)
  \/ \E v \in verifying : VerifyApiFails(v)
  \/ \E v \in verifying, o \in FetchOutcomes, c \in ChainBalances : VerifyResume(v, o, c)
  \/ \E h \in Headers : RefreshStart(h)
  \/ \E h \in Headers : Entitlement(h)

SpecRegistry == InitRegistry /\ [][NextRegistry]_vars

\* ------------------------------------------------------------------ C17
\* the registry holds the issued nonces consumeNonce was never called on, and
\* /auth/nonce has answered with a nonce that is in it until now + TTL
C17_State ==
  /\ DOMAIN nonceStore = {n \in NonceIds : nonceHist[n].issued /\ nonceHist[n].calls = 0}
  /\ last.op = "nonce" =>
       /\ last.status = 200
       /\ last.nonce \in DOMAIN nonceStore
       /\ nonceStore[last.nonce] = last.at + NONCE_TTL * MsPerSec

\* what one step does to the registry
C17_Step ==
  /\ last'.op = "nonce" =>
       /\ last'.nonce \notin DOMAIN nonceStore
       /\ DOMAIN nonceStore' = DOMAIN nonceStore \cup {last'.nonce}
       /\ \A k \in DOMAIN nonceStore : nonceStore'[k] = nonceStore[k]
  /\ (last'.op /= "nonce" /\ nonceStore' /= nonceStore) =>
       \E n \in DOMAIN nonceStore :
         /\ nonceStore' = Without(nonceStore, n)
         /\ nonceHist[n].calls = 0 /\ nonceHist'[n].calls = 1
  /\ (last'.op = "verify" /\ last'.reached /\ last'.nonce \notin DOMAIN nonceStore) =>
       nonceStore' = nonceStore
  /\ now' /= now => nonceStore' = nonceStore
  /\ last'.op \in {"refresh", "entitlement"} =>
       (nonceStore' = nonceStore /\ nonceHist' = nonceHist)

\* C17: in every reachable state the registry holds exactly the issued nonces
\* consumeNonce was never called on; /auth/nonce adds one new entry expiring
\* at now + TTL and touches no other, consumeNonce removes the entry it is
\* called on and no other, and nothing when it is called on an absent value,
\* the passing of time removes nothing, and /auth/refresh and /entitlement
\* leave the registry alone.
C17_RegistryIsIssuedMinusConsumed == [](C17_State) /\ [][C17_Step]_vars

\* one nonce consumed while the other, long expired, is still in the registry,
\* and a refresh answered
C17_Witness ==
  /\ \E n \in DOMAIN nonceStore : nonceStore[n] < now
  /\ \E m \in NonceIds : nonceHist[m].issued /\ nonceHist[m].calls >= 1
  /\ last.op = "refresh"

\* ------------------------------------------------------------------ C18
\* the request answered last read a balance at or above the threshold for
\* the subject of token k
PassingReadFor(resp, k) ==
  /\ resp.fetch \in FetchOutcomes
  /\ resp.asked = k.sub
  /\ resp.bal >= TheThreshold

\* a token is issued only by a request that read a passing balance for its
\* subject, in the second the token is dated; a token validates for less than
\* the session TTL from that second
C18_State ==
  RECHECK_ON_REFRESH =>
    /\ last.minted =>
         /\ last.jwt \in tokens
         /\ PassingReadFor(last, last.jwt)
         /\ last.jwt.iat = NowSec(now)
    /\ \A k \in tokens :
         Validates(k, now) => NowSec(now) - k.iat < JWT_TTL_MIN * SecPerMin

\* the tokens signed so far grow only by a token issued on a passing read,
\* and a request that read a balance below the threshold, or none, adds none
C18_Step ==
  RECHECK_ON_REFRESH =>
    /\ tokens' /= tokens =>
         /\ last'.minted
         /\ tokens' = tokens \cup {last'.jwt}
         /\ PassingReadFor(last', last'.jwt)
    /\ (last'.op \in {"verify", "refresh"} /\ ~(last'.fetch \in FetchOutcomes /\ last'.bal >= TheThreshold)) =>
         (tokens' = tokens /\ ~last'.minted)

C19_State ==
  /\ \A k \in tokens : k.hasAccess
  /\ last.minted => last.jwt.hasAccess
  /\ (last.op = "entitlement" /\ Validates(stripBearer(last.header), last.at)) =>
       /\ last.status = 200
       /\ last.hasAccess
       /\ last.address = stripBearer(last.header).sub
       /\ last.fetch = "none" /\ last.asked = ""

\* /entitlement changes nothing the server holds
C19_Step ==
  last'.op = "entitlement" =>
    UNCHANGED <<now, nonceStore, gearApi, verifying, refreshing, tokens, denied, nonceHist>>

\* C19: every token the server issues carries hasAccess = true; /entitlement
\* only validates the token, fetches no balance and changes no state, and
\* answers every valid server-issued token with hasAccess = true and the
\* token's subject as address.
C19_EntitlementEchoesToken == [](C19_State) /\ [][C19_Step]_vars

\* /entitlement answers a token issued in this run
C19_Witness ==
  /\ last.op = "entitlement" /\ last.status = 200
  /\ stripBearer(last.header) \in tokens \ {PriorToken}
  /\ last.hasAccess /\ last.address = stripBearer(last.header).sub

\* ------------------------------------------------ extractLine on its own
\* extractLine and the fields step of /auth/verify on messages that may
\* repeat a key: up to MaxLines lines drawn freely, and, for the request
\* sent to /auth/verify, the five lines of a sound challenge after them.
MaxLines == 3

LineKeys == {"Nonce", "Memo"}
LineValues == {EmptyVal, CharsVal(<<" ">>), CharsVal(<<" ", "1", " ">>), UuidVal(1)}
Lines == {[key |-> k, val |-> v] : k \in LineKeys, v \in LineValues}
Messages == UNION {[1..n -> Lines] : n \in 0..MaxLines}
AskedKeys == {"Nonce", "Domain"}

SoundLines ==
  Msg(UuidVal(1), TextVal("app.example"), TextVal("vara"), DateVal(0), GoodExpiresIn)

\* the request whose message is the drawn lines and then the sound ones
Padded(message) ==
  [address |-> "5Alice", message |-> message \o SoundLines,
   signature |-> GoodSig("5Alice", message \o SoundLines)]

InitExtract ==
  /\ eval \in [message : Messages, key : AskedKeys, extracted : {FALSE}, value : {EmptyVal},
                submitted : {FALSE}, status : {0}, error : {""}]
  /\ now = 0
  /\ nonceStore = TwoNonces
  /\ gearApi = "null"
  /\ RECHECK_ON_REFRESH = TRUE
  /\ verifying = {}
  /\ refreshing = {}
  /\ tokens = {}
  /\ denied = {}
  /\ nonceHist = [n \in NonceIds |-> NoHist]
  /\ last = Blank

\* extractLine(message, key)
Extract ==
  /\ ~eval.extracted
  /\ eval' = [eval EXCEPT !.extracted = TRUE, !.value = extractLine(eval.message, eval.key)]
  /\ UNCHANGED <<now, nonceStore, gearApi, RECHECK_ON_REFRESH, verifying, refreshing, tokens,
                 denied, nonceHist, last>>

\* POST /auth/verify with the padded message, up to the await of the balance
Submit ==
  LET r == verifySync(Padded(eval.message), nonceStore, now) IN
  /\ ~eval.submitted
  /\ nonceStore' = r.store
  /\ eval' = [eval EXCEPT !.submitted = TRUE, !.status = r.status, !.error = r.error]
  /\ UNCHANGED <<now, gearApi, RECHECK_ON_REFRESH, verifying, refreshing, tokens, denied,
                 nonceHist, last>>

NextExtract == Extract \/ Submit

SpecExtract == InitExtract /\ [][NextExtract]_vars

\* ------------------------------------------------------------------ C20
\* the lines of a message that start with "<key>:"
LinesOf(message, key) == {i \in 1..Len(message) : message[i].key = key}

\* the first of them
FirstOf(message, key) ==
  CHOOSE i \in LinesOf(message, key) : \A j \in LinesOf(message, key) : i <= j

\* a text with no blank at either end
Trimmed(v) == v.kind = "chars" => (Head(v.chars) /= " " /\ v.chars[Len(v.chars)] /= " ")

\* a text that is empty once trimmed
BlankText(v) == v.kind = "empty" \/ (v.kind = "chars" /\ \A i \in 1..Len(v.chars) : v.chars[i] = " ")

\* C20: extractLine returns the trimmed value of the first line that starts
\* with "<key>:", whatever later lines with that key say, and the empty
\* string when no line does; so /auth/verify rejects as malformed (400,
\* Error: <key>) a message whose first line for a required key has an empty
\* value, even if a later line for the key has one.
C20_FirstLineOnly ==
  /\ eval.extracted =>
       IF LinesOf(eval.message, eval.key) = {} THEN eval.value = EmptyVal
       ELSE LET first == eval.message[FirstOf(eval.message, eval.key)].val IN
            /\ eval.value = Trim(first)
            /\ Trimmed(eval.value)
            /\ BlankText(first) <=> eval.value = EmptyVal
  /\ eval.submitted =>
       LET m == Padded(eval.message).message IN
       IF BlankText(m[FirstOf(m, "Nonce")].val)
         THEN eval.status = 400 /\ eval.error = "Error: Nonce" /\ nonceStore = TwoNonces
         ELSE eval.error \notin {"Error: Nonce", "Error: Domain", "Error: ChainId",
                                  "Error: IssuedAt", "Error: ExpiresIn", "ZodError"}

\* a message whose first Nonce line is blank and whose later ones are not:
\* extractLine gave the empty string and /auth/verify answered Error: Nonce
C20_Witness ==
  /\ eval.extracted /\ eval.submitted /\ eval.key = "Nonce"
  /\ Len(eval.message) >= 2
  /\ eval.message[1] = [key |-> "Nonce", val |-> CharsVal(<<" ">>)]
  /\ eval.message[2] = [key |-> "Nonce", val |-> UuidVal(1)]
  /\ eval.value = EmptyVal
  /\ eval.status = 400 /\ eval.error = "Error: Nonce"

====
